---- MODULE Spec2Model ----
(***************************************************************************)
(* picture-compressor: pictureCompress(options) validates a request,       *)
(* decodes the image, reads its EXIF orientation, computes the target size *)
(* (getDistSize), draws it on a canvas and encodes it (compress), and      *)
(* settles one promise.  Source: src/src/index.js.                         *)
(*                                                                         *)
(* JavaScript values are records tagged by kind, so that an omitted option *)
(* (undefined), NaN and the || defaults behave as they do in the code.     *)
(* Quality is counted in hundredths (0.92 is 92).  The scale factor of     *)
(* getDistSize is an exact fraction <<num, den>>.                          *)
(***************************************************************************)
EXTENDS Integers, Sequences, FiniteSets, TLC

\* ---------------------------------------------------------------- bounds
MaxRequest == 2    \* requested width and height range over -1..MaxRequest
MaxNatural == 2    \* natural width and height of the decoded image: 1..MaxNatural
MaxEvents == 2     \* load and error notifications delivered to one image
MaxSource == 7     \* source sizes handed to getDistSize on its own
MaxDist == 7       \* requested sizes handed to getDistSize on its own

\* ------------------------------------------------------ JavaScript values
Undefined == [kind |-> "undefined"]
NaN == [kind |-> "nan"]
Num(n) == [kind |-> "number", n |-> n]
Str(s) == [kind |-> "string", s |-> s]

IsNum(v) == v.kind = "number"

\* ToBoolean: undefined, NaN, 0 and "" are falsy.
Truthy(v) ==
  CASE v.kind = "number" -> v.n # 0
    [] v.kind = "string" -> v.s # ""
    [] OTHER -> FALSE

\* a || b
Or(a, b) == IF Truthy(a) THEN a ELSE b

\* a + b on numbers and undefined: undefined converts to NaN.
Plus(a, b) == IF IsNum(a) /\ IsNum(b) THEN Num(a.n + b.n) ELSE NaN

\* a < k and a <= k for a number k: every comparison with NaN is false.
Lt(a, k) == IsNum(a) /\ a.n < k
Le(a, k) == IsNum(a) /\ a.n <= k

\* unary minus
Neg(a) == IF IsNum(a) THEN Num(0 - a.n) ELSE NaN

\* s contains sub as a substring
Contains(s, sub) ==
  \E i \in 1..(Len(s) - Len(sub) + 1) : SubSeq(s, i, i + Len(sub) - 1) = sub

\* ------------------------------------------------------------ getDistSize
\* Fractions <<num, den>> with den > 0.
FracLe(a, b) == a[1] * b[2] <= b[1] * a[2]
FracMin(a, b) == IF FracLe(a, b) THEN a ELSE b
Min3(a, b, c) == FracMin(FracMin(a, b), c)

\* Math.round(n * scale) for n >= 0 and scale >= 0: the nearest integer, a half
\* rounding up.
RoundMul(n, scale) == (2 * n * scale[1] + scale[2]) \div (2 * scale[2])

\* Candidate with a requested 0 contributing 0 / s instead of 1.
CandidateZero(d, s) == <<d.n, s>>

\* dist.width ? dist.width / source.height : 1
Candidate(d, s) == IF Truthy(d) THEN <<d.n, s>> ELSE <<1, 1>>

\* ScaleOf comparing width with width and height with height whatever the
\* orientation.
ScaleOfNoSwap(source, dist, orientation) ==
  Min3(Candidate(dist.width, source.width),
       Candidate(dist.height, source.height), <<1, 1>>)

\* The scale factor of lines 140-153, the early return of line 141 aside.
ScaleOf(source, dist, orientation) ==
  IF orientation = Num(6) \/ orientation = Num(8)
  THEN Min3(Candidate(dist.width, source.height),
            Candidate(dist.height, source.width), <<1, 1>>)
  ELSE Min3(Candidate(dist.width, source.width),
            Candidate(dist.height, source.height), <<1, 1>>)

\* getDistSize without the early return of line 141.
getDistSizeNoFillSwap(source, dist, fit, orientation) ==
  IF fit = Str("fill")
  THEN dist
  ELSE LET scale == ScaleOf(source, dist, orientation)
       IN [width |-> Num(RoundMul(source.width, scale)),
           height |-> Num(RoundMul(source.height, scale))]

getDistSize(source, dist, fit, orientation) ==
  IF (orientation = Num(6) \/ orientation = Num(8)) /\ fit = Str("fill")
  THEN [width |-> dist.height, height |-> dist.width]
  ELSE LET scale == ScaleOf(source, dist, orientation)
       IN IF fit = Str("fill")
          THEN dist
          ELSE [width |-> Num(RoundMul(source.width, scale)),
                height |-> Num(RoundMul(source.height, scale))]

\* --------------------------------------------------------------- compress
types == [jpg |-> "image/jpeg", jpeg |-> "image/jpeg", png |-> "image/png"]

\* types[type]: undefined for a name that is no key of the table.
TypeOf(type) ==
  IF type.kind = "string" /\ type.s \in DOMAIN types
  THEN Str(types[type.s]) ELSE Undefined

\* canvas.width = v: the attribute is an unsigned long; undefined and NaN give 0.
CanvasDim(v) == IF IsNum(v) /\ v.n >= 0 THEN v.n ELSE 0

\* document.createElement('canvas') followed by canvas.width/height = width/height.
\* rotate counts quarter turns clockwise; draws lists the drawImage calls.
NewCanvas(width, height) ==
  [width |-> CanvasDim(width), height |-> CanvasDim(height),
   rotate |-> 0, draws |-> <<>>]

Resize(canvas, width, height) ==
  [canvas EXCEPT !.width = CanvasDim(width), !.height = CanvasDim(height)]

Rotate(canvas, quarters) == [canvas EXCEPT !.rotate = quarters]

DrawImage(canvas, x, y, w, h) ==
  [canvas EXCEPT !.draws = Append(@, [x |-> x, y |-> y, w |-> w, h |-> h])]

\* The canvas as compress leaves it before toDataURL (lines 97-125).
Render(width, height, orientation) ==
  LET canvas == NewCanvas(width, height)
  IN IF Truthy(orientation) /\ orientation # Num(1)
     THEN CASE orientation = Num(6) ->
                 DrawImage(Rotate(Resize(canvas, height, width), 1),
                           Num(0), Neg(height), width, height)
            [] orientation = Num(3) ->
                 DrawImage(Rotate(canvas, 2), Neg(width), Neg(height), width, height)
            [] orientation = Num(8) ->
                 DrawImage(Rotate(Resize(canvas, height, width), 3),
                           Neg(width), Num(0), width, height)
            [] OTHER -> canvas
     ELSE DrawImage(canvas, Num(0), Num(0), width, height)

\* canvas.toDataURL(mime, quality): the encoded image, described by the surface it
\* was encoded from and the arguments of the call.
ToDataURL(canvas, mime, quality) ==
  [width |-> canvas.width, height |-> canvas.height, rotate |-> canvas.rotate,
   draws |-> canvas.draws, mime |-> mime, quality |-> quality]

compress(width, height, type, quality, orientation) ==
  ToDataURL(Render(width, height, orientation), TypeOf(type), quality)

\* ---------------------------------------------------------------- promise
Pending == [state |-> "pending", value |-> Undefined]
Error(message) == [kind |-> "error", message |-> message]

\* resolve and reject of the executor: they settle a pending promise and do
\* nothing to a settled one.
Resolve(p, v) == IF p.state = "pending" THEN [state |-> "fulfilled", value |-> v] ELSE p
Reject(p, e) == IF p.state = "pending" THEN [state |-> "rejected", value |-> e] ELSE p

\* ------------------------------------------------------------------ state
VARIABLES
  options,      \* the request record handed to pictureCompress
  pc,           \* "Created" before the call, "Returned" once the executor has run
  promise,      \* the promise pictureCompress returns
  image,        \* the Image of line 37 and what its decode yields
  loads,        \* load notifications delivered so far
  errors,       \* error notifications delivered so far
  orientation,  \* the variable of line 41, of the latest run of the load handler
  exifPending,  \* the callback of line 43 is still to be called by the EXIF reader
  passed,       \* the orientation the latest run handed to getDistSize and compress
  distSize,     \* line 47, latest run
  imgData,      \* line 60, latest run
  unit          \* getDistSize called on its own: its arguments and its result

vars == <<options, pc, promise, image, loads, errors, orientation, exifPending,
          passed, distSize, imgData, unit>>

NoImage ==
  [created |-> FALSE, src |-> Undefined, onload |-> FALSE, onerror |-> FALSE,
   complete |-> FALSE, naturalWidth |-> 0, naturalHeight |-> 0, exif |-> Undefined,
   exifMode |-> "none"]

NoUnit ==
  [applied |-> FALSE, source |-> Undefined, dist |-> Undefined, fit |-> Undefined,
   orientation |-> Undefined, result |-> Undefined]

\* --------------------------------------------------------------- requests
Imgs == {Undefined, Str(""), Str("a.jpg")}
Dims == {Undefined} \cup {Num(n) : n \in -1..MaxRequest}
Types == {Undefined, Str("jpg"), Str("jpeg"), Str("png"), Str("gif"),
          Str("JPG"), Str("apng")}
Qualities == {Undefined, Num(50)}
Fits == {Undefined, Str("scale"), Str("fill")}

Requests == [img : Imgs, width : Dims, height : Dims, type : Types,
             quality : Qualities, fit : Fits]

\* What a decode can yield: the natural size and the EXIF Orientation tag, absent
\* or 1..8.
NaturalSizes == 1..MaxNatural
ExifTags == {Undefined} \cup {Num(n) : n \in 1..8}

\* How EXIF.getData treats its callback for an image: called before getData
\* returns, or called later (a later call that never comes is an "async" whose
\* callback stays pending).
ExifModes == {"sync", "async"}

\* -------------------------------------------------------- pictureCompress
DefaultQuality == 92

\* lines 21-26
imgSrc == options.img
width == options.width
height == options.height
type == Or(options.type, Str("jpg"))
quality == Or(options.quality, Num(DefaultQuality))
fit == Or(options.fit, Str("scale"))

\* MissingImg that tells an absent img only, not an empty one.
MissingImgAbsentOnly(o) == o.img = Undefined

\* line 17
MissingImg(o) == ~Truthy(o.img)

\* line 28
InvalidDimensions(w, h) == Lt(w, 0) \/ Lt(h, 0) \/ Le(Plus(w, h), 0)

\* line 32: /jpg|png|jpeg/.test(type), an unanchored search
TypeTest(t) == \E alt \in {"jpg", "png", "jpeg"} : Contains(t.s, alt)

\* new Image(); image.src = imgSrc; image.onload = ...; image.onerror = ...
NewImage(src) ==
  [NoImage EXCEPT !.created = TRUE, !.src = src, !.onload = TRUE, !.onerror = TRUE]

\* Executor without the return of line 34: after rejecting an unknown type it goes
\* on to create the image.
ExecutorNoReturn ==
  IF MissingImg(options)
  THEN [promise |-> Reject(Pending, Error("need img")), image |-> NoImage]
  ELSE IF InvalidDimensions(width, height)
  THEN [promise |-> Reject(Pending, Error("dist width or height need >= 0")),
        image |-> NoImage]
  ELSE IF ~TypeTest(type)
  THEN [promise |-> Reject(Pending, Error("type need jpg or png!")),
        image |-> NewImage(imgSrc)]
  ELSE [promise |-> Pending, image |-> NewImage(imgSrc)]

\* The executor of line 16, run inside new Promise: the promise and the image it
\* leaves.
Executor ==
  IF MissingImg(options)
  THEN [promise |-> Reject(Pending, Error("need img")), image |-> NoImage]
  ELSE IF InvalidDimensions(width, height)
  THEN [promise |-> Reject(Pending, Error("dist width or height need >= 0")),
        image |-> NoImage]
  ELSE IF ~TypeTest(type)
  THEN [promise |-> Reject(Pending, Error("type need jpg or png!")), image |-> NoImage]
  ELSE [promise |-> Pending, image |-> NewImage(imgSrc)]

PictureCompress ==
  /\ pc = "Created"
  /\ pc' = "Returned"
  /\ promise' = Executor.promise
  /\ image' = Executor.image
  /\ UNCHANGED <<options, loads, errors, orientation, exifPending, passed,
                 distSize, imgData, unit>>

\* EXIF.getTag(this, 'Orientation') || 1
TagOrOne(img) == Or(img.exif, Num(1))

\* The orientation the load handler holds when it reaches line 47: the callback of
\* line 43 has run by then only if the reader called it before getData returned.
OrientationRead(img) == IF img.exifMode = "sync" THEN TagOrOne(img) ELSE Num(1)

\* image.onload (lines 40-73) on an image decoded as img.
OnLoadAs(img) ==
  LET o == OrientationRead(img)
      size == getDistSize([width |-> img.naturalWidth, height |-> img.naturalHeight],
                          [width |-> width, height |-> height], fit, o)
      data == compress(size.width, size.height, type, quality, o)
  IN /\ image' = img
     /\ orientation' = o
     /\ exifPending' = (img.exifMode = "async")
     /\ passed' = o
     /\ distSize' = size
     /\ imgData' = data
     /\ promise' = Resolve(promise, [width |-> size.width, height |-> size.height,
                                     img |-> data])

\* What a decode of the image can yield.
Decoded(img) ==
  IF img.complete THEN {img}
  ELSE {[img EXCEPT !.complete = TRUE, !.naturalWidth = w, !.naturalHeight = h,
                    !.exif = tag, !.exifMode = mode] :
          w \in NaturalSizes, h \in NaturalSizes, tag \in ExifTags, mode \in ExifModes}

\* The image fires load.  The first load fixes what the decode yielded.
OnLoad ==
  /\ image.onload
  /\ loads + errors < MaxEvents
  /\ loads' = loads + 1
  /\ \E img \in Decoded(image) : OnLoadAs(img)
  /\ UNCHANGED <<options, pc, errors, unit>>

\* image.onerror (lines 74-76): the image fires error.
OnError ==
  /\ image.onerror
  /\ loads + errors < MaxEvents
  /\ errors' = errors + 1
  /\ promise' = Reject(promise, [kind |-> "event", type |-> "error"])
  /\ UNCHANGED <<options, pc, image, loads, orientation, exifPending, passed,
                 distSize, imgData, unit>>

\* The EXIF reader calls the callback of lines 43-45 after the handler returned.
ExifCallback ==
  /\ exifPending
  /\ exifPending' = FALSE
  /\ orientation' = TagOrOne(image)
  /\ UNCHANGED <<options, pc, promise, image, loads, errors, passed, distSize,
                 imgData, unit>>

Init ==
  /\ options \in Requests
  /\ pc = "Created"
  /\ promise = Pending
  /\ image = NoImage
  /\ loads = 0
  /\ errors = 0
  /\ orientation = Undefined
  /\ exifPending = FALSE
  /\ passed = Undefined
  /\ distSize = Undefined
  /\ imgData = Undefined
  /\ unit = NoUnit

Next == PictureCompress \/ OnLoad \/ OnError \/ ExifCallback

Spec == Init /\ [][Next]_vars

\* ------------------------------------------------- getDistSize on its own
\* The sizes of the documented scenarios (800x600 scaled to a width of 400, a
\* 200x200 box) are added to the bounded ranges.
Sources ==
  {[width |-> w, height |-> h] : w \in 1..MaxSource, h \in 1..MaxSource}
    \cup {[width |-> 800, height |-> 600]}
Dists ==
  {[width |-> Num(w), height |-> Num(h)] : w \in 0..MaxDist, h \in 0..MaxDist}
    \cup {[width |-> Num(400), height |-> Num(0)],
          [width |-> Num(200), height |-> Num(200)]}
Orientations == {Num(n) : n \in 1..8}

GeomInit ==
  /\ options = [img |-> Undefined, width |-> Undefined, height |-> Undefined,
                type |-> Undefined, quality |-> Undefined, fit |-> Undefined]
  /\ pc = "Created"
  /\ promise = Pending
  /\ image = NoImage
  /\ loads = 0
  /\ errors = 0
  /\ orientation = Undefined
  /\ exifPending = FALSE
  /\ passed = Undefined
  /\ distSize = Undefined
  /\ imgData = Undefined
  /\ \E s \in Sources, d \in Dists, f \in {Str("scale"), Str("fill")},
        o \in Orientations :
       unit = [NoUnit EXCEPT !.source = s, !.dist = d, !.fit = f, !.orientation = o]

GetDistSizeCall ==
  /\ ~unit.applied
  /\ unit' = [unit EXCEPT !.applied = TRUE,
                !.result = getDistSize(unit.source, unit.dist, unit.fit,
                                       unit.orientation)]
  /\ UNCHANGED <<options, pc, promise, image, loads, errors, orientation,
                 exifPending, passed, distSize, imgData>>

GeomSpec == GeomInit /\ [][GetDistSizeCall]_vars

\* ------------------------------------------------- claims on getDistSize
Swapped(o) == o = Num(6) \/ o = Num(8)
ScaleCall == unit.applied /\ unit.fit = Str("scale")
FillCall == unit.applied /\ unit.fit = Str("fill")

\* C4 as stated: in scale mode, for a requested box that is not {0, 0}, the target
\* is no larger than the source on either axis, and on each axis whose requested
\* dimension is > 0 the target's width is at most the requested width and its
\* height at most the requested height, for every orientation 1..8.
C4_ScaleWithinRequestedBox ==
  (ScaleCall /\ ~(unit.dist.width.n = 0 /\ unit.dist.height.n = 0)) =>
    /\ unit.result.width.n <= unit.source.width
    /\ unit.result.height.n <= unit.source.height
    /\ unit.dist.width.n > 0 => unit.result.width.n <= unit.dist.width.n
    /\ unit.dist.height.n > 0 => unit.result.height.n <= unit.dist.height.n

\* C4 amended: in scale mode the target is no larger than the source on either
\* axis; for orientations other than 6 and 8 its width is at most a requested
\* width > 0 and its height at most a requested height > 0; for orientations 6
\* and 8 the target is in the axes before rotation, so its height is at most a
\* requested width > 0 and its width at most a requested height > 0.
C4_ScaleWithinRotatedBox ==
  (ScaleCall /\ ~(unit.dist.width.n = 0 /\ unit.dist.height.n = 0)) =>
    /\ unit.result.width.n <= unit.source.width
    /\ unit.result.height.n <= unit.source.height
    /\ (unit.dist.width.n > 0 /\ ~Swapped(unit.orientation)) =>
         unit.result.width.n <= unit.dist.width.n
    /\ (unit.dist.height.n > 0 /\ ~Swapped(unit.orientation)) =>
         unit.result.height.n <= unit.dist.height.n
    /\ (unit.dist.width.n > 0 /\ Swapped(unit.orientation)) =>
         unit.result.height.n <= unit.dist.width.n
    /\ (unit.dist.height.n > 0 /\ Swapped(unit.orientation)) =>
         unit.result.width.n <= unit.dist.height.n

\* A scale call under orientation 6 on a landscape source whose target is wider
\* than the requested width and exactly as high as the requested width.
C4_Witness ==
  /\ ScaleCall
  /\ unit.orientation = Num(6)
  /\ unit.source.width > unit.source.height
  /\ unit.dist.width.n > 0
  /\ unit.result.width.n > unit.dist.width.n
  /\ unit.result.height.n = unit.dist.width.n
  /\ unit.result.height.n < unit.source.height

\* C5: in fill mode the result is the requested {width, height} as given when the
\* orientation is not 6 or 8 (orientation 3 included) and the two swapped when it
\* is 6 or 8, whatever the source size.
C5_FillIsRequestedBox ==
  FillCall =>
    IF Swapped(unit.orientation)
    THEN /\ unit.result.width = unit.dist.height
         /\ unit.result.height = unit.dist.width
    ELSE /\ unit.result.width = unit.dist.width
         /\ unit.result.height = unit.dist.height

\* A fill call under orientation 8 with a non-square box, returned swapped.
C5_Witness ==
  /\ FillCall
  /\ unit.orientation = Num(8)
  /\ unit.dist.width # unit.dist.height
  /\ unit.result.width = unit.dist.height
  /\ unit.source.width # unit.dist.height.n

\* C9: in scale mode the result is {round(source.width * s), round(source.height *
\* s)}, s the least of cw, ch and 1, where cw and ch divide the requested width
\* and height by the source's width and height (by its height and width for
\* orientations 6 and 8) and a requested 0 gives the candidate 1; 800x600 asked
\* for {400, 0} under orientation 1 gives {400, 300}, and {0, 0} gives the source
\* size.  The rounding is stated by its bounds: r = round(n * p / q) iff
\* (2r - 1) * q <= 2 * n * p < (2r + 1) * q.
C9_ScaleIsRoundedMinimum ==
  ScaleCall =>
    LET sw == unit.source.width
        sh == unit.source.height
        dw == unit.dist.width.n
        dh == unit.dist.height.n
        aw == IF Swapped(unit.orientation) THEN sh ELSE sw
        ah == IF Swapped(unit.orientation) THEN sw ELSE sh
        cands == {IF dw = 0 THEN <<1, 1>> ELSE <<dw, aw>>,
                  IF dh = 0 THEN <<1, 1>> ELSE <<dh, ah>>, <<1, 1>>}
        IsRound(r, n, s) ==
          /\ (2 * r - 1) * s[2] <= 2 * n * s[1]
          /\ 2 * n * s[1] < (2 * r + 1) * s[2]
    IN /\ \E s \in cands :
            /\ \A c \in cands : s[1] * c[2] <= c[1] * s[2]
            /\ IsRound(unit.result.width.n, sw, s)
            /\ IsRound(unit.result.height.n, sh, s)
       /\ (sw = 800 /\ sh = 600 /\ dw = 400 /\ dh = 0 /\ unit.orientation = Num(1)) =>
            (unit.result.width.n = 400 /\ unit.result.height.n = 300)
       /\ (dw = 0 /\ dh = 0) =>
            (unit.result.width.n = sw /\ unit.result.height.n = sh)

\* The documented scenario: 800x600 asked for {400, 0} under orientation 1.
C9_Witness ==
  /\ ScaleCall
  /\ unit.source = [width |-> 800, height |-> 600]
  /\ unit.dist = [width |-> Num(400), height |-> Num(0)]
  /\ unit.orientation = Num(1)
  /\ unit.result = [width |-> Num(400), height |-> Num(300)]

\* --------------------------------------------- claims on pictureCompress
Returned == pc = "Returned"
Settled == promise.state \in {"fulfilled", "rejected"}
RejectedWith(message) == promise = [state |-> "rejected", value |-> Error(message)]
HasImg == options.img.kind = "string" /\ options.img.s # ""

\* No Image was created and no src assigned.
NoDecode == ~image.created /\ image.src = Undefined /\ loads = 0

\* A requested dimension as documented: an omitted one counts as 0.
Documented(d) == IF d = Undefined THEN 0 ELSE d.n

\* The documented rule: both >= 0 and at least one > 0.
DocumentedDimsOk ==
  /\ Documented(options.width) >= 0
  /\ Documented(options.height) >= 0
  /\ Documented(options.width) > 0 \/ Documented(options.height) > 0

\* C1: a request with a non-empty img whose width or height is < 0, or of which
\* neither is > 0 (an omitted one counting as 0), is rejected with 'dist width or
\* height need >= 0' and starts no decode.
C1_BadDimensionsRejected ==
  (Returned /\ HasImg /\ ~DocumentedDimsOk) =>
    (RejectedWith("dist width or height need >= 0") /\ NoDecode)

\* C2: a request with a non-empty img and valid dimensions whose type is a
\* non-empty string other than 'jpg', 'jpeg', 'png' is rejected with 'type need
\* jpg or png!' and starts no decode; every type that reaches the encoder is a key
\* of the MIME table.
C2_UnknownTypeRejected ==
  /\ (/\ Returned /\ HasImg /\ DocumentedDimsOk
      /\ options.type.kind = "string"
      /\ options.type.s \notin {"", "jpg", "jpeg", "png"}) =>
       (RejectedWith("type need jpg or png!") /\ NoDecode)
  /\ imgData # Undefined => imgData.mime # Undefined

\* C3: a request whose img is missing or empty is rejected with 'need img',
\* whatever its width, height, type, quality and fit, and starts no decode.
C3_MissingImgRejected ==
  (Returned /\ ~HasImg) => (RejectedWith("need img") /\ NoDecode)

\* An empty img together with a negative width and an unknown type.
C3_Witness ==
  /\ Returned
  /\ options.img = Str("")
  /\ options.width = Num(-1)
  /\ options.type = Str("gif")
  /\ RejectedWith("need img")

\* What holds of one call at every moment: before the call the promise is
\* pending; a request rejected by validation (with an Error) has no image; a
\* promise is fulfilled only after a load and, once an image exists, rejected
\* only after an error, with the error event as its reason; and after the call
\* the promise is still pending only while the image waits for its first
\* notification.
OutcomeInv ==
  /\ ~Returned => promise = Pending
  /\ (promise.state = "rejected" /\ promise.value.kind = "error") => NoDecode
  /\ promise.state = "fulfilled" => (image.created /\ loads >= 1)
  /\ (promise.state = "rejected" /\ image.created) =>
       (errors >= 1 /\ promise.value.kind = "event")
  /\ (Returned /\ ~Settled) => (image.created /\ loads + errors = 0)

CleanRequest ==
  /\ IsNum(options.width) /\ IsNum(options.height) /\ DocumentedDimsOk
  /\ options.type \in {Undefined, Str("jpg"), Str("jpeg"), Str("png")}

\* C7: for every orientation other than 3, 6 and 8 the surface keeps the target
\* size, no rotation is applied and the image is drawn exactly once at (0, 0) with
\* the target size as its box; every call of compress draws exactly once.
\* (Stated for requests inside the documented domain.)
C7_DrawnOnce ==
  (imgData # Undefined /\ CleanRequest) =>
    /\ Len(imgData.draws) = 1
    /\ (passed \notin {Num(3), Num(6), Num(8)}) =>
         /\ imgData.width = CanvasDim(distSize.width)
         /\ imgData.height = CanvasDim(distSize.height)
         /\ imgData.rotate = 0
         /\ imgData.draws = <<[x |-> Num(0), y |-> Num(0), w |-> distSize.width,
                               h |-> distSize.height]>>

\* C8: the orientation handed to getDistSize and compress is the image's EXIF
\* Orientation tag when it has one and 1 when it has none, whether the reader
\* calls back inside getData or later.  (Stated for requests inside the documented
\* domain.)
C8_OrientationReadBeforeUse ==
  (passed # Undefined /\ CleanRequest) => passed = TagOrOne(image)

\* C10: the width and height of the result record are those of the surface that
\* was encoded, for every fit mode and orientation.  (Stated for requests inside
\* the documented domain.)
C10_ReportedSizeIsEncodedSize ==
  (promise.state = "fulfilled" /\ CleanRequest) =>
    /\ promise.value.width = Num(promise.value.img.width)
    /\ promise.value.height = Num(promise.value.img.height)

====
